---- MODULE Spec2Model ----
(***************************************************************************)
(* bluetooth-bitrate-manager: the SBC bitrate calculator, the codec        *)
(* configuration resolver, the two pactl parsers that call them            *)
(* (monitor.get_pactl_bt_info and gui.BitrateMonitor.get_bluetooth_devices)*)
(* the terminal monitor's main, the GUI's bitpool slider and build         *)
(* handlers, and the GUI's privileged-command helpers.                     *)
(*                                                                         *)
(* Python values are modelled as follows.  A str is a TLA+ string, and the *)
(* str methods are computed character by character.  A dict is a function  *)
(* whose DOMAIN is the set of keys present.  None is the empty tuple.  An  *)
(* Optional[int] is None or the one-element tuple <<n>>.                    *)
(***************************************************************************)
EXTENDS Integers, Sequences, FiniteSets, TLC

VARIABLES
    cfg,          \* calculator: the SbcConfiguration handed to it
    calc_result,  \* calculator: the value returned (None or <<bps>>)
    calc_pc,      \* calculator: "call" before the call, "done" after it
    source,       \* attribute source: address -> negotiation record or None
    source_up,    \* attribute source: whether a read of it succeeds
    res_addr,     \* resolver: the address of the last resolve call (or None)
    res_result,   \* resolver: the value returned by the last resolve call
    res_pc,       \* resolver: "idle" before any call, "done" after one
    res_calls,    \* resolver: the last two calls, each with the source it read
    mon,          \* terminal monitor: state of get_pactl_bt_info
    gui,          \* GUI: state of BitrateMonitor.get_bluetooth_devices
    nlines,       \* number of pactl output lines consumed so far
    seen,         \* the 'Sink #' blocks of the pactl output consumed so far
    win,          \* GUI: the configuration tab of BluetoothBitrateWindow
    proc,         \* terminal monitor: one run of main
    priv,         \* GUI: the host's helpers and one run_privileged_command call
    sudo,         \* GUI: the sudo ticket and the module's keepalive thread
    callers,      \* GUI: the threads inside ensure_sudo_ticket, and its lock
    disp          \* GUI: the main loop's display updates and their queries

calcVars == <<cfg, calc_result, calc_pc>>

resVars == <<source, source_up, res_addr, res_result, res_pc, res_calls>>

parseVars == <<mon, gui, nlines, seen>>

uiVars == <<win, proc, priv, sudo, callers, disp>>

vars == <<calcVars, resVars, parseVars, uiVars>>

-----------------------------------------------------------------------------
(* Python values *)

None == <<>>

Some(v) == <<v>>

DictGet(d, k, default) == IF k \in DOMAIN d THEN d[k] ELSE default

DictSet(d, k, v) == [x \in (DOMAIN d) \cup {k} |-> IF x = k THEN v ELSE d[x]]

-----------------------------------------------------------------------------
(* Python str methods, computed on the characters *)

\* s[i-1:j]: the characters i..j of s that exist
Slice(s, i, j) ==
    LET lo == IF i < 1 THEN 1 ELSE i
        hi == IF j > Len(s) THEN Len(s) ELSE j
    IN IF lo > hi THEN "" ELSE SubSeq(s, lo, hi)

Char(s, i) == Slice(s, i, i)

\* sub in s
Contains(sub, s) ==
    \E i \in 1..(Len(s) - Len(sub) + 1) : Slice(s, i, i + Len(sub) - 1) = sub

\* s.startswith(prefix)
StartsWith(s, prefix) ==
    Len(s) >= Len(prefix) /\ Slice(s, 1, Len(prefix)) = prefix

\* the first index >= i of s whose character is in chars (Len(s) + 1 if none)
RECURSIVE Skip(_, _, _)
Skip(s, i, chars) ==
    IF i > Len(s) \/ Char(s, i) \in chars THEN i ELSE Skip(s, i + 1, chars)

\* s.find(ch) + 1 for a one-character ch: 0 when ch is not in s
Find(s, ch) ==
    LET i == Skip(s, 1, {ch}) IN IF i > Len(s) THEN 0 ELSE i

\* s.split(sep, 1)[1], defined when sep is in s
SplitOnceSecond(s, sep) == Slice(s, Find(s, sep) + 1, Len(s))

\* len(s.split(sep))
SplitCount(s, sep) == 1 + Cardinality({i \in 1..Len(s) : Char(s, i) = sep})

\* s.split(sep)[1], defined when sep is in s
SplitSecond(s, sep) ==
    LET rest == SplitOnceSecond(s, sep)
        j == Find(rest, sep)
    IN IF j = 0 THEN rest ELSE Slice(rest, 1, j - 1)

WhitespaceChars == {" ", "\t", "\n", "\r", "\f"}

\* the first index >= i of s whose character is not in chars (Len(s) + 1 if none)
RECURSIVE RunEnd(_, _, _)
RunEnd(s, i, chars) ==
    IF i > Len(s) \/ Char(s, i) \notin chars THEN i ELSE RunEnd(s, i + 1, chars)

\* the last index <= i of s whose character is not in chars (0 if none)
RECURSIVE RunStart(_, _, _)
RunStart(s, i, chars) ==
    IF i < 1 \/ Char(s, i) \notin chars THEN i ELSE RunStart(s, i - 1, chars)

\* s.strip(chars)
StripChars(s, chars) ==
    Slice(s, RunEnd(s, 1, chars), RunStart(s, Len(s), chars))

\* s.strip()
Strip(s) == StripChars(s, WhitespaceChars)

UpperLetters == "ABCDEFGHIJKLMNOPQRSTUVWXYZ"

LowerLetters == "abcdefghijklmnopqrstuvwxyz"

\* the character of `to` at the place ch has in `from`, or ch itself
MapChar(ch, from, to) ==
    LET i == Find(from, ch) IN IF i = 0 THEN ch ELSE Char(to, i)

\* the characters i.. of s, each mapped by MapChar
RECURSIVE MapChars(_, _, _, _)
MapChars(s, i, from, to) ==
    IF i > Len(s) THEN ""
    ELSE MapChar(Char(s, i), from, to) \o MapChars(s, i + 1, from, to)

\* s.lower()
Lower(s) == MapChars(s, 1, UpperLetters, LowerLetters)

\* s.upper()
Upper(s) == MapChars(s, 1, LowerLetters, UpperLetters)

DigitChars == {"0", "1", "2", "3", "4", "5", "6", "7", "8", "9"}

\* the match of (\d+)ch\s+(\d+)Hz that starts at index i of s: <<group 1, group 2>>, or None
SpecGroups(s, i, k, m, n) ==
    IF /\ k > i
       /\ Slice(s, k, k + 1) = "ch"
       /\ m > k + 2
       /\ n > m
       /\ Slice(s, n, n + 1) = "Hz"
    THEN <<Slice(s, i, k - 1), Slice(s, m, n - 1)>>
    ELSE None

\* the second run of digits starts at m
SpecSecondDigits(s, i, k, m) == SpecGroups(s, i, k, m, RunEnd(s, m, DigitChars))

\* the first run of digits ends before k; "ch" and the whitespace follow
SpecFirstDigits(s, i, k) ==
    SpecSecondDigits(s, i, k, RunEnd(s, k + 2, WhitespaceChars))

SpecMatchAt(s, i) == SpecFirstDigits(s, i, RunEnd(s, i, DigitChars))

\* the groups of the first match that starts at index i or later, or None
RECURSIVE SpecSearchFrom(_, _)
SpecSearchFrom(s, i) ==
    IF i > Len(s) THEN None
    ELSE IF SpecMatchAt(s, i) # None THEN SpecMatchAt(s, i)
    ELSE SpecSearchFrom(s, i + 1)

\* re.search(r'(\d+)ch\s+(\d+)Hz', s): the groups of the leftmost match, or None
SpecSearch(s) == SpecSearchFrom(s, 1)

-----------------------------------------------------------------------------
(* The pactl output fed to the parsers *)

DeviceAddress == "AA:BB:CC:DD:EE:FF"

RawCodecs ==
    {"sbc", "sbc_xq", "SBC-XQ", "msbc", "cvsd", "aac", "aptx", "aptx_hd",
     "ldac", "ldac_hq", "ldac_sq", "lc3"}

CodecLine(codec) == "\t\tapi.bluez5.codec = \"" \o codec \o "\""

InputLines ==
    {"Sink #57",
     "\tState: RUNNING",
     "\tName: bluez_output.AA_BB_CC_DD_EE_FF.1",
     "\tName: alsa_output.pci-0000_00_1f.3.analog-stereo",
     "\tDescription: WH-1000XM4",
     "\tSample Specification: s16le 2ch 48000Hz",
     "\t\tapi.bluez5.address = \"" \o DeviceAddress \o "\"",
     "\t\tapi.bluez5.address = \"\"",
     "\t\tapi.bluez5.codec"}
        \cup {CodecLine(c) : c \in RawCodecs}

-----------------------------------------------------------------------------
(* The str computations of one loop pass depend on the line alone: they are
   computed once for every input line, and the parsers look them up. *)

\* line.split(':', 1)[1].strip()
AfterColon(line) == Strip(SplitOnceSecond(line, ":"))

\* line.split('=')[1].strip().strip('"')
AfterEquals(line) == StripChars(Strip(SplitSecond(line, "=")), {"\""})

LineTable ==
    [line \in InputLines |->
        [after_colon |-> IF Find(line, ":") = 0 THEN "" ELSE AfterColon(line),
         parts |-> SplitCount(line, "="),
         after_equals |-> IF Find(line, "=") = 0 THEN "" ELSE AfterEquals(line)]]

\* the names, descriptions, sample specifications, addresses and codecs read
InputValues ==
    {LineTable[line].after_colon : line \in InputLines}
        \cup {LineTable[line].after_equals : line \in InputLines}

ValueTable ==
    [v \in InputValues |->
        [lower |-> Lower(v), upper |-> Upper(v), search |-> SpecSearch(v)]]

Needles ==
    {"Name:", "Description:", "api.bluez5.address", "api.bluez5.codec",
     "Sample Specification:", "bluez", "sbc", "xq", "aac", "aptx_hd", "aptx",
     "ldac", "hq", "sq", "msbc", "cvsd"}

ContainsTable ==
    [s \in InputLines \cup InputValues \cup {ValueTable[v].lower : v \in InputValues}
        |-> {sub \in Needles : Contains(sub, s)}]

\* sub in s
In(sub, s) == sub \in ContainsTable[s]

\* s.lower()
LowerOf(s) == ValueTable[s].lower

\* s.upper()
UpperOf(s) == ValueTable[s].upper

\* re.search(r'(\d+)ch\s+(\d+)Hz', s)
SearchOf(s) == ValueTable[s].search

\* len(line.split('='))
PartsOf(line) == LineTable[line].parts

AfterColonOf(line) == LineTable[line].after_colon

AfterEqualsOf(line) == LineTable[line].after_equals

-----------------------------------------------------------------------------
(* SBC Bitrate Calculator (bitrate_utils) *)

SampleRates == {16000, 32000, 44100, 48000}

ChannelModes == {"mono", "dual_channel", "stereo", "joint_stereo"}

BlockLengths == {4, 8, 12, 16}

Subbands == {4, 8}

MinBitpool == 2

MaxBitpool == 250

Bitpools == MinBitpool..MaxBitpool

HasBitpool(config) == "effective_bitpool" \in DOMAIN config

\* mutant: the remainder is added instead of one
CeilDivRemainder(a, b) == (a \div b) + (a % b)

CeilDiv(a, b) == (a + b - 1) \div b

\* mutant: a tie goes down
RoundHalfDown(num, den) == (2 * num + den - 1) \div (2 * den)

\* round(num / den) for num >= 0, den > 0; a tie goes up
RoundHalfUp(num, den) == (2 * num + den) \div (2 * den)

\* mutant: mono counted as two channels
ChannelsAlwaysTwo(channel_mode) == 2

Channels(channel_mode) == IF channel_mode = "mono" THEN 1 ELSE 2

FrameHeader(channel_mode, subbands) ==
    4 + (4 * subbands * Channels(channel_mode)) \div 8

FramePayload(bitpool, channel_mode, block_length, subbands) ==
    CASE channel_mode \in {"mono", "dual_channel"} ->
            CeilDiv(block_length * Channels(channel_mode) * bitpool, 8)
      [] channel_mode = "stereo" ->
            CeilDiv(block_length * bitpool, 8)
      [] channel_mode = "joint_stereo" ->
            CeilDiv(subbands + block_length * bitpool, 8)

FrameLength(bitpool, channel_mode, block_length, subbands) ==
    FrameHeader(channel_mode, subbands)
        + FramePayload(bitpool, channel_mode, block_length, subbands)

calculate_sbc_bitrate(bitpool, sample_rate, channel_mode, block_length, subbands) ==
    RoundHalfUp(FrameLength(bitpool, channel_mode, block_length, subbands)
                    * sample_rate * 8,
                block_length * subbands)

\* mutant: an absent effective_bitpool is replaced by max_bitpool
sbc_bitrate_guessed(config) ==
    calculate_sbc_bitrate(IF HasBitpool(config) THEN config["effective_bitpool"]
                          ELSE config["max_bitpool"],
                          config["sample_rate"], config["channel_mode"],
                          config["block_length"], config["subbands"])

sbc_bitrate_from_config_guess(config) == <<sbc_bitrate_guessed(config)>>

sbc_bitrate_from_config(config) ==
    IF ~HasBitpool(config)
    THEN None
    ELSE Some(calculate_sbc_bitrate(config["effective_bitpool"],
                                    config["sample_rate"],
                                    config["channel_mode"],
                                    config["block_length"],
                                    config["subbands"]))

-----------------------------------------------------------------------------
(* Formatting helpers (bitrate_utils) *)

TwoDigits(n) == IF n < 10 THEN "0" \o ToString(n) ELSE ToString(n)

\* bits per second scaled to kbps, or to Mbps from one million up
format_bitrate(bps) ==
    IF bps >= 1000000
    THEN LET hundredths == RoundHalfUp(bps, 10000)
         IN ToString(hundredths \div 100) \o "." \o TwoDigits(hundredths % 100)
                \o " Mbps"
    ELSE ToString(RoundHalfUp(bps, 1000)) \o " kbps"

\* the display label of a channel mode; "" for anything else
format_channel_mode(channel_mode) ==
    CASE channel_mode = "mono" -> "Mono"
      [] channel_mode = "dual_channel" -> "Dual Channel"
      [] channel_mode = "stereo" -> "Stereo"
      [] channel_mode = "joint_stereo" -> "Joint Stereo"
      [] OTHER -> ""

-----------------------------------------------------------------------------
(* Codec Configuration Resolver (bitrate_utils) *)

SbcConfiguration(sample_rate, channel_mode, block_length, subbands, min_bitpool, max_bitpool) ==
    [sample_rate |-> sample_rate, channel_mode |-> channel_mode,
     block_length |-> block_length, subbands |-> subbands,
     min_bitpool |-> min_bitpool, max_bitpool |-> max_bitpool]

WithBitpool(config, bitpool) == DictSet(config, "effective_bitpool", bitpool)

\* A negotiation record of the attribute source: the SBC fields with the
\* min/max bitpool range, and a key "bitpool" only when the source reports
\* the single negotiated value.
RangeRecord(sample_rate, channel_mode, block_length, subbands, min_bitpool, max_bitpool) ==
    SbcConfiguration(sample_rate, channel_mode, block_length, subbands,
                     min_bitpool, max_bitpool)

NegotiatedRecord(record, bitpool) == DictSet(record, "bitpool", bitpool)

\* mutant: a range-only record gets the maximum as effective bitpool
fetch_sbc_configuration_max(src, address) ==
    IF address \notin DOMAIN src THEN None
    ELSE IF src[address] = None THEN None
    ELSE WithBitpool(SbcConfiguration(src[address]["sample_rate"],
                                      src[address]["channel_mode"],
                                      src[address]["block_length"],
                                      src[address]["subbands"],
                                      src[address]["min_bitpool"],
                                      src[address]["max_bitpool"]),
                     IF "bitpool" \in DOMAIN src[address]
                     THEN src[address]["bitpool"]
                     ELSE src[address]["max_bitpool"])

\* mutant: a range-only record gets effective bitpool 0
fetch_sbc_configuration_zero(src, address) ==
    IF address \notin DOMAIN src THEN None
    ELSE IF src[address] = None THEN None
    ELSE WithBitpool(SbcConfiguration(src[address]["sample_rate"],
                                      src[address]["channel_mode"],
                                      src[address]["block_length"],
                                      src[address]["subbands"],
                                      src[address]["min_bitpool"],
                                      src[address]["max_bitpool"]),
                     IF "bitpool" \in DOMAIN src[address]
                     THEN src[address]["bitpool"]
                     ELSE 0)

\* resolve(device_address): one read of the source; None when it has no record
fetch_sbc_configuration(src, address) ==
    IF address \notin DOMAIN src THEN None
    ELSE IF src[address] = None THEN None
    ELSE LET record == src[address]
             config == SbcConfiguration(record["sample_rate"],
                                        record["channel_mode"],
                                        record["block_length"],
                                        record["subbands"],
                                        record["min_bitpool"],
                                        record["max_bitpool"])
         IN IF "bitpool" \in DOMAIN record
            THEN WithBitpool(config, record["bitpool"])
            ELSE config

\* mutant: a read that failed is tried a second time
resolve_retry(src, up, address) ==
    [queries |-> IF up THEN 1 ELSE 2, raised |-> FALSE,
     result |-> IF up THEN fetch_sbc_configuration(src, address) ELSE None]

\* one call of resolve: the reads of the source it makes, whether it raises,
\* and the value it returns; a read that fails is surfaced as None
resolve(src, up, address) ==
    [queries |-> 1, raised |-> FALSE,
     result |-> IF up THEN fetch_sbc_configuration(src, address) ELSE None]

\* mutant: the result of the last call for the same address is kept
ResolveCallCached(calls, src, up, address) ==
    IF calls # <<>> /\ calls[Len(calls)].address = address
    THEN calls[Len(calls)].outcome
    ELSE resolve(src, up, address)

\* a call of resolve made after the earlier calls `calls`: nothing of them
\* is kept
ResolveCall(calls, src, up, address) == resolve(src, up, address)

-----------------------------------------------------------------------------
(* Python truthiness *)

\* bool(d) for d None or a dict
DictTruthy(d) == d # None /\ DOMAIN d # {}

\* bool(n) for n None or an int
IntTruthy(n) == n # None /\ n[1] # 0

-----------------------------------------------------------------------------
(* Terminal monitor: get_pactl_bt_info *)

NewDevice ==
    [is_bluetooth |-> FALSE, channel_mode |-> "Unknown",
     block_length |-> "Unknown", subbands |-> "Unknown"]

\* current_device and current_device.get('is_bluetooth')
IsBluetooth(current_device) ==
    DictTruthy(current_device) /\ DictGet(current_device, "is_bluetooth", FALSE)

\* mutant: the devices appended before the error are returned
MonitorRaisePartial(st) ==
    [st EXCEPT !.pc = "done", !.result = st.devices, !.raised = TRUE]

\* the except clause: the error is printed and [] returned
MonitorRaise(st) == [st EXCEPT !.pc = "done", !.result = <<>>, !.raised = TRUE]

\* mutant: the address of the block before stays in the new dict
MonitorSinkLineKeepAddress(st) ==
    [st EXCEPT !.devices = IF IsBluetooth(st.current_device)
                           THEN Append(@, st.current_device) ELSE @,
               !.current_device =
                    IF st.current_device # None
                            /\ "address" \in DOMAIN st.current_device
                    THEN DictSet(NewDevice, "address",
                                 st.current_device["address"])
                    ELSE NewDevice]

MonitorSinkLine(st) ==
    [st EXCEPT !.devices = IF IsBluetooth(st.current_device)
                           THEN Append(@, st.current_device) ELSE @,
               !.current_device = NewDevice]

MonitorNameLine(cd, line) ==
    LET name == AfterColonOf(line)
        named == DictSet(cd, "name", name)
    IN IF In("bluez", name) THEN DictSet(named, "is_bluetooth", TRUE)
       ELSE named

\* mutant: the estimates are the formula's kbps at bitpool 32 and 47
MonitorEstimateFromFormula(is_xq) == IF is_xq THEN "~551 kbps" ELSE "~386 kbps"

MonitorEstimate(is_xq) == IF is_xq THEN "~552 kbps" ELSE "~328 kbps"

\* the config the SBC branch works on: the resolver is asked only for a
\* non-empty address
MonitorConfig(cd, src) ==
    IF DictGet(cd, "address", "") # ""
    THEN fetch_sbc_configuration(src, DictGet(cd, "address", ""))
    ELSE None

\* mutant: the result of the calculator is used without the bitpool check
MonitorSbcBitrateUnchecked(config, is_xq) ==
    IF config # None
    THEN LET bitrate == sbc_bitrate_from_config(config)
         IN format_bitrate(IF bitrate = None THEN 0 ELSE bitrate[1])
                \o " (bitpool "
                \o (IF HasBitpool(config)
                    THEN ToString(config["effective_bitpool"]) ELSE "None")
                \o ")"
    ELSE MonitorEstimate(is_xq)

\* the bitrate string of an SBC device
MonitorSbcBitrate(config, is_xq) ==
    IF config # None
    THEN LET bitrate == sbc_bitrate_from_config(config)
         IN IF IntTruthy(bitrate) /\ HasBitpool(config)
            THEN format_bitrate(bitrate[1]) \o " (bitpool "
                    \o ToString(config["effective_bitpool"]) \o ")"
            ELSE MonitorEstimate(is_xq)
    ELSE MonitorEstimate(is_xq)

\* rate, channel_mode, block_length and subbands taken from a config
ConfigFields(cd, config) ==
    LET cd1 == IF config["sample_rate"] # 0
               THEN DictSet(cd, "rate", ToString(config["sample_rate"]))
               ELSE cd
        mode_label == format_channel_mode(config["channel_mode"])
        cd2 == IF config["channel_mode"] # "" /\ mode_label # ""
               THEN DictSet(cd1, "channel_mode", mode_label)
               ELSE cd1
        cd3 == IF config["block_length"] # 0
               THEN DictSet(cd2, "block_length", ToString(config["block_length"]))
               ELSE cd2
    IN IF config["subbands"] # 0
       THEN DictSet(cd3, "subbands", ToString(config["subbands"]))
       ELSE cd3

MonitorSbc(cd, codec_lower, src) ==
    LET is_xq == In("xq", codec_lower)
        labelled == DictSet(cd, "codec", IF is_xq THEN "SBC XQ" ELSE "SBC")
        config == MonitorConfig(cd, src)
        rated == DictSet(labelled, "bitrate", MonitorSbcBitrate(config, is_xq))
    IN IF config # None THEN ConfigFields(rated, config) ELSE rated

Labelled(cd, codec, bitrate) ==
    DictSet(DictSet(cd, "codec", codec), "bitrate", bitrate)

\* mutant: 'aptx' is tested before 'aptx_hd'
MonitorNonSbcAptxFirst(cd, codec, codec_lower) ==
    IF In("aac", codec_lower) THEN Labelled(cd, "AAC", "~256 kbps")
    ELSE IF In("aptx", codec_lower) THEN Labelled(cd, "aptX", "352 kbps")
    ELSE IF In("aptx_hd", codec_lower) THEN Labelled(cd, "aptX HD", "576 kbps")
    ELSE IF In("ldac", codec_lower)
         THEN IF In("hq", codec_lower) THEN Labelled(cd, "LDAC", "~990 kbps")
              ELSE IF In("sq", codec_lower) THEN Labelled(cd, "LDAC", "~660 kbps")
              ELSE Labelled(cd, "LDAC", "~330-990 kbps")
    ELSE IF In("msbc", codec_lower) THEN Labelled(cd, "mSBC", "~64 kbps")
    ELSE IF In("cvsd", codec_lower) THEN Labelled(cd, "CVSD", "~64 kbps")
    ELSE DictSet(cd, "codec", UpperOf(codec))

\* the elif chain for a codec that is not SBC
MonitorNonSbc(cd, codec, codec_lower) ==
    IF In("aac", codec_lower) THEN Labelled(cd, "AAC", "~256 kbps")
    ELSE IF In("aptx_hd", codec_lower) THEN Labelled(cd, "aptX HD", "576 kbps")
    ELSE IF In("aptx", codec_lower) THEN Labelled(cd, "aptX", "352 kbps")
    ELSE IF In("ldac", codec_lower)
         THEN IF In("hq", codec_lower) THEN Labelled(cd, "LDAC", "~990 kbps")
              ELSE IF In("sq", codec_lower) THEN Labelled(cd, "LDAC", "~660 kbps")
              ELSE Labelled(cd, "LDAC", "~330-990 kbps")
    ELSE IF In("msbc", codec_lower) THEN Labelled(cd, "mSBC", "~64 kbps")
    ELSE IF In("cvsd", codec_lower) THEN Labelled(cd, "CVSD", "~64 kbps")
    ELSE DictSet(cd, "codec", UpperOf(codec))

MonitorDecode(cd, codec, src) ==
    LET codec_lower == LowerOf(codec)
        raw == DictSet(cd, "codec_raw", codec)
    IN IF In("sbc", codec_lower) THEN MonitorSbc(raw, codec_lower, src)
       ELSE MonitorNonSbc(raw, codec, codec_lower)

\* what the SBC branch did on one codec line: the address the dict held, the
\* argument of the resolver call and of the calculator call (None: no call),
\* and the bitrate string stored
MonitorSbcCall(cd, codec, src, decoded) ==
    LET config == MonitorConfig(cd, src)
    IN [is_xq |-> In("xq", LowerOf(codec)),
        address |-> IF "address" \in DOMAIN cd THEN Some(cd["address"]) ELSE None,
        resolver_arg |-> IF DictGet(cd, "address", "") # ""
                         THEN Some(DictGet(cd, "address", "")) ELSE None,
        config |-> config,
        calculator_arg |-> IF config # None THEN config ELSE None,
        shown |-> decoded["bitrate"]]

MonitorCodecLine(st, line, src) ==
    IF PartsOf(line) < 2 THEN MonitorRaise(st)
    ELSE LET codec == AfterEqualsOf(line)
             cd == st.current_device
             decoded == MonitorDecode(cd, codec, src)
         IN [st EXCEPT !.current_device = decoded,
                       !.sbc_log =
                            IF In("sbc", LowerOf(codec))
                            THEN @ \cup {MonitorSbcCall(cd, codec, src, decoded)}
                            ELSE @]

MonitorAddressLine(st, line) ==
    IF PartsOf(line) < 2 THEN MonitorRaise(st)
    ELSE [st EXCEPT !.current_device =
            DictSet(@, "address", AfterEqualsOf(line))]

MonitorSpecLine(cd, line) ==
    LET spec == AfterColonOf(line)
        match == SearchOf(spec)
        cd1 == DictSet(cd, "spec", spec)
    IN IF match # None
       THEN DictSet(DictSet(cd1, "channels", match[1]), "rate", match[2])
       ELSE cd1

\* one pass of the for loop
MonitorLine(st, line, src) ==
    IF StartsWith(line, "Sink #") THEN MonitorSinkLine(st)
    ELSE IF st.current_device = None THEN st
    ELSE IF In("Name:", line)
         THEN [st EXCEPT !.current_device = MonitorNameLine(@, line)]
    ELSE IF In("Description:", line)
         THEN [st EXCEPT !.current_device =
                    DictSet(@, "description", AfterColonOf(line))]
    ELSE IF In("api.bluez5.address", line) THEN MonitorAddressLine(st, line)
    ELSE IF In("api.bluez5.codec", line) THEN MonitorCodecLine(st, line, src)
    ELSE IF In("Sample Specification:", line)
         THEN [st EXCEPT !.current_device = MonitorSpecLine(@, line)]
    ELSE st

\* mutant: the block still open at the end of the input is dropped
MonitorReturnDropLast(st) ==
    [st EXCEPT !.result = st.devices, !.pc = "done"]

\* after the loop: the last device is appended and the list returned
MonitorReturn(st) ==
    LET devices == IF IsBluetooth(st.current_device)
                   THEN Append(st.devices, st.current_device) ELSE st.devices
    IN [st EXCEPT !.devices = devices, !.result = devices, !.pc = "done"]

-----------------------------------------------------------------------------
(* GUI: BitrateMonitor.get_bluetooth_devices *)

\* BluetoothDevice(...) built from the dict, with the constructor's defaults
BluetoothDevice(cd) ==
    [name |-> DictGet(cd, "name", "Unknown"),
     description |-> DictGet(cd, "description", "Unknown"),
     codec |-> DictGet(cd, "codec", "Unknown"),
     bitrate |-> DictGet(cd, "bitrate", "Unknown"),
     rate |-> DictGet(cd, "rate", "Unknown"),
     channels |-> DictGet(cd, "channels", "Unknown"),
     channel_mode |-> DictGet(cd, "channel_mode", "Unknown"),
     block_length |-> DictGet(cd, "block_length", "Unknown"),
     subbands |-> DictGet(cd, "subbands", "Unknown"),
     codec_raw |-> DictGet(cd, "codec_raw", "")]

GuiRaise(st) == [st EXCEPT !.pc = "done", !.result = <<>>, !.raised = TRUE]

GuiSinkLine(st) ==
    [st EXCEPT !.devices = IF IsBluetooth(st.current_device)
                           THEN Append(@, BluetoothDevice(st.current_device))
                           ELSE @,
               !.current_device = NewDevice]

GuiNameLine(cd, line) ==
    LET name == AfterColonOf(line)
        named == DictSet(cd, "name", name)
    IN IF In("bluez", name) THEN DictSet(named, "is_bluetooth", TRUE)
       ELSE named

GuiEstimate(is_xq) == IF is_xq THEN "~552 kbps (est.)" ELSE "~328 kbps (est.)"

\* the config the SBC branch works on: the resolver is asked whenever the
\* dict has an address key
GuiConfig(cd, src) ==
    IF "address" \in DOMAIN cd THEN fetch_sbc_configuration(src, cd["address"])
    ELSE None

\* mutant: the estimates of the two SBC branches are exchanged
GuiSbcBitrateSwapped(config, is_xq) ==
    IF config # None
    THEN LET bitrate_value == sbc_bitrate_from_config(config)
         IN IF IntTruthy(bitrate_value) /\ HasBitpool(config)
            THEN format_bitrate(bitrate_value[1]) \o " (bitpool "
                    \o ToString(config["effective_bitpool"]) \o ")"
            ELSE GuiEstimate(~is_xq)
    ELSE GuiEstimate(~is_xq)

\* the bitrate string of an SBC device
GuiSbcBitrate(config, is_xq) ==
    IF config # None
    THEN LET bitrate_value == sbc_bitrate_from_config(config)
         IN IF IntTruthy(bitrate_value) /\ HasBitpool(config)
            THEN format_bitrate(bitrate_value[1]) \o " (bitpool "
                    \o ToString(config["effective_bitpool"]) \o ")"
            ELSE GuiEstimate(is_xq)
    ELSE GuiEstimate(is_xq)

\* the two SBC branches (SBC XQ, SBC) hold the same statements
GuiSbc(cd, codec, src) ==
    LET is_xq == In("xq", LowerOf(codec))
        labelled == DictSet(cd, "codec", IF is_xq THEN "SBC XQ" ELSE "SBC")
        config == GuiConfig(cd, src)
        rated == DictSet(labelled, "bitrate", GuiSbcBitrate(config, is_xq))
    IN IF config # None THEN ConfigFields(rated, config) ELSE rated

\* the elif chain for a codec that is not SBC
GuiNonSbc(cd, codec) ==
    LET codec_lower == LowerOf(codec) IN
    IF In("aac", codec_lower) THEN Labelled(cd, "AAC", "~256 kbps")
    ELSE IF In("aptx_hd", codec_lower) THEN Labelled(cd, "aptX HD", "576 kbps")
    ELSE IF In("aptx", codec_lower) THEN Labelled(cd, "aptX", "352 kbps")
    ELSE IF In("ldac", codec_lower)
         THEN IF In("hq", codec_lower) THEN Labelled(cd, "LDAC", "~990 kbps")
              ELSE IF In("sq", codec_lower) THEN Labelled(cd, "LDAC", "~660 kbps")
              ELSE Labelled(cd, "LDAC", "~330-990 kbps")
    ELSE IF In("msbc", codec_lower) THEN Labelled(cd, "mSBC", "~64 kbps")
    ELSE IF In("cvsd", codec_lower) THEN Labelled(cd, "CVSD", "~64 kbps")
    ELSE DictSet(cd, "codec", UpperOf(codec))

GuiDecode(cd, codec, src) ==
    LET raw == DictSet(cd, "codec_raw", codec)
    IN IF In("sbc", LowerOf(codec)) THEN GuiSbc(raw, codec, src)
       ELSE GuiNonSbc(raw, codec)

\* what the SBC branch did on one codec line (as MonitorSbcCall)
GuiSbcCall(cd, codec, src, decoded) ==
    LET config == GuiConfig(cd, src)
    IN [is_xq |-> In("xq", LowerOf(codec)),
        address |-> IF "address" \in DOMAIN cd THEN Some(cd["address"]) ELSE None,
        resolver_arg |-> IF "address" \in DOMAIN cd THEN Some(cd["address"]) ELSE None,
        config |-> config,
        calculator_arg |-> IF config # None THEN config ELSE None,
        shown |-> decoded["bitrate"]]

GuiCodecLine(st, line, src) ==
    IF PartsOf(line) < 2 THEN GuiRaise(st)
    ELSE LET codec == AfterEqualsOf(line)
             cd == st.current_device
             decoded == GuiDecode(cd, codec, src)
         IN [st EXCEPT !.current_device = decoded,
                       !.sbc_log =
                            IF In("sbc", LowerOf(codec))
                            THEN @ \cup {GuiSbcCall(cd, codec, src, decoded)}
                            ELSE @]

GuiAddressLine(st, line) ==
    IF PartsOf(line) < 2 THEN GuiRaise(st)
    ELSE [st EXCEPT !.current_device =
            DictSet(@, "address", AfterEqualsOf(line))]

\* mutant: the channels of the sample specification are not stored
GuiSpecLineRateOnly(cd, line) ==
    IF SearchOf(AfterColonOf(line)) # None
    THEN DictSet(cd, "rate", SearchOf(AfterColonOf(line))[2])
    ELSE cd

GuiSpecLine(cd, line) ==
    LET spec == AfterColonOf(line)
        match == SearchOf(spec)
    IN IF match # None
       THEN DictSet(DictSet(cd, "channels", match[1]), "rate", match[2])
       ELSE cd

\* one pass of the for loop
GuiLine(st, line, src) ==
    IF StartsWith(line, "Sink #") THEN GuiSinkLine(st)
    ELSE IF ~DictTruthy(st.current_device) THEN st
    ELSE IF In("Name:", line)
         THEN [st EXCEPT !.current_device = GuiNameLine(@, line)]
    ELSE IF In("Description:", line)
         THEN [st EXCEPT !.current_device =
                    DictSet(@, "description", AfterColonOf(line))]
    ELSE IF In("api.bluez5.address", line) THEN GuiAddressLine(st, line)
    ELSE IF In("api.bluez5.codec", line) THEN GuiCodecLine(st, line, src)
    ELSE IF In("Sample Specification:", line)
         THEN [st EXCEPT !.current_device = GuiSpecLine(@, line)]
    ELSE st

\* after the loop: the last device is appended and the list returned
GuiReturn(st) ==
    LET devices == IF IsBluetooth(st.current_device)
                   THEN Append(st.devices, BluetoothDevice(st.current_device))
                   ELSE st.devices
    IN [st EXCEPT !.devices = devices, !.result = devices, !.pc = "done"]

-----------------------------------------------------------------------------
(* Values shown by the GUI for the reference settings *)

\* mutant: the Standard mark carries the standard SBC estimate
SliderMarkKbpsEstimate(bitpool) ==
    CASE bitpool = 32 -> 328
      [] bitpool = 47 -> 551
      [] bitpool = 64 -> 738

\* the kbps printed under the bitpool slider's marks
SliderMarkKbps(bitpool) ==
    CASE bitpool = 32 -> 386
      [] bitpool = 47 -> 551
      [] bitpool = 64 -> 738

SliderMarks == {32, 47, 64}

-----------------------------------------------------------------------------
(* The calculator as a state machine: one call on one configuration *)

UnresolvedConfigs ==
    {SbcConfiguration(sr, cm, bl, sb, MinBitpool, MaxBitpool) :
        sr \in SampleRates, cm \in ChannelModes, bl \in BlockLengths,
        sb \in Subbands}

CalcConfigs ==
    UnresolvedConfigs
        \cup {WithBitpool(c, b) : c \in UnresolvedConfigs, b \in Bitpools}

CalcIdle == cfg = None /\ calc_result = None /\ calc_pc = "idle"

Calculate ==
    /\ calc_pc = "call"
    /\ calc_result' = sbc_bitrate_from_config(cfg)
    /\ calc_pc' = "done"
    /\ UNCHANGED <<cfg, resVars, parseVars, uiVars>>

-----------------------------------------------------------------------------
(* The resolver as a state machine: calls of resolve on a source *)

\* addresses a caller may pass: the connected device, another one, a
\* malformed one, the empty string
QueryAddresses == {DeviceAddress, "11:22:33:44:55:66", "AA-BB", ""}

RangeEnds == {2, 32, 47, 53, 250}

RangeRecords ==
    {RangeRecord(sr, cm, bl, sb, mn, mx) :
        sr \in SampleRates, cm \in ChannelModes, bl \in BlockLengths,
        sb \in Subbands, mn \in RangeEnds, mx \in {e \in RangeEnds : e >= 32}}

SourceRecords ==
    {r \in RangeRecords : r["min_bitpool"] <= r["max_bitpool"]}
        \cup {NegotiatedRecord(r, b) : r \in RangeRecords, b \in RangeEnds}

\* the records the source can hold: the range is well-formed and a single
\* negotiated bitpool lies inside it
ValidSourceRecord(r) ==
    /\ r["min_bitpool"] <= r["max_bitpool"]
    /\ "bitpool" \in DOMAIN r =>
            r["min_bitpool"] <= r["bitpool"] /\ r["bitpool"] <= r["max_bitpool"]

ResolveSources ==
    {[a \in {DeviceAddress} |-> r] :
        r \in {x \in SourceRecords : ValidSourceRecord(x)} \cup {None}}

\* no call of resolve made yet
ResNoCall ==
    /\ res_addr = None
    /\ res_result = None
    /\ res_pc = "idle"
    /\ res_calls = <<>>

ResIdle ==
    /\ source = [a \in {DeviceAddress} |-> None]
    /\ source_up = TRUE
    /\ ResNoCall

\* the last two elements of a sequence
LastTwo(seq) == IF Len(seq) > 2 THEN Tail(seq) ELSE seq

CallRecord(address, outcome) ==
    [address |-> address, source |-> source, up |-> source_up,
     outcome |-> outcome]

Resolve(address) ==
    /\ res_addr' = Some(address)
    /\ res_calls' =
            LastTwo(Append(res_calls,
                           CallRecord(address,
                                      ResolveCall(res_calls, source, source_up,
                                                  address))))
    /\ res_result' = res_calls'[Len(res_calls')].outcome.result
    /\ res_pc' = "done"
    /\ UNCHANGED <<calcVars, source, source_up, parseVars, uiVars>>

\* the device reconnects or renegotiates: the source holds another record
Renegotiate(record) ==
    /\ source[DeviceAddress] # record
    /\ source' = [source EXCEPT ![DeviceAddress] = record]
    /\ UNCHANGED <<calcVars, source_up, res_addr, res_result, res_pc, res_calls,
                   parseVars, uiVars>>

\* the source becomes unavailable, or available again
SourceUpDown ==
    /\ source_up' = ~source_up
    /\ UNCHANGED <<calcVars, source, res_addr, res_result, res_pc, res_calls,
                   parseVars, uiVars>>

-----------------------------------------------------------------------------
(* The two parsers as a state machine, fed the same pactl output line by line *)

\* what the source holds for the device while the parsers run
ParseRecords ==
    {None,
     RangeRecord(48000, "joint_stereo", 16, 8, 2, 53),
     NegotiatedRecord(RangeRecord(44100, "dual_channel", 16, 8, 2, 53), 47),
     NegotiatedRecord(RangeRecord(44100, "joint_stereo", 16, 8, 2, 53), 53)}

ParseSources == {[a \in {DeviceAddress} |-> r] : r \in ParseRecords}

MaxLines == 5

ParserStart ==
    [pc |-> "pactl", devices |-> <<>>, current_device |-> None,
     result |-> <<>>, raised |-> FALSE,
     sbc_log |-> {}]

\* What the lines read so far contain, told from the lines alone: the Bluetooth
\* blocks already closed by a later 'Sink #' line (each stood for by the value
\* of its last codec line, "" without one), the block still open with the
\* value of its last address line (None without one), and whether
\* an address or codec line without '=' was met inside a block
SeenStart == [closed |-> <<>>, open |-> None, malformed |-> FALSE]

SeenBlock == [bluez |-> FALSE, codec_raw |-> "", address |-> None]

\* the Bluetooth blocks up to and including the open one
SeenClose(sn) ==
    IF sn.open # None /\ sn.open.bluez
    THEN Append(sn.closed, sn.open.codec_raw) ELSE sn.closed

SeenProperty(sn, line) ==
    IF PartsOf(line) < 2 THEN [sn EXCEPT !.malformed = TRUE]
    ELSE IF In("api.bluez5.address", line)
         THEN [sn EXCEPT !.open.address = Some(AfterEqualsOf(line))]
    ELSE [sn EXCEPT !.open.codec_raw = AfterEqualsOf(line)]

SeenLine(sn, line) ==
    IF StartsWith(line, "Sink #")
    THEN [sn EXCEPT !.closed = SeenClose(sn), !.open = SeenBlock]
    ELSE IF sn.open = None THEN sn
    ELSE IF In("Name:", line)
         THEN [sn EXCEPT !.open.bluez = @ \/ In("bluez", line)]
    ELSE IF In("Description:", line) THEN sn
    ELSE IF In("api.bluez5.address", line) \/ In("api.bluez5.codec", line)
         THEN SeenProperty(sn, line)
    ELSE sn

ParseIdle ==
    mon = ParserStart /\ gui = ParserStart /\ nlines = 0 /\ seen = SeenStart

\* nothing of the programs' user interfaces is running
UiIdle ==
    /\ win = None /\ proc = None /\ priv = None /\ sudo = None
    /\ callers = None /\ disp = None

\* subprocess.run(['pactl', 'list', 'sinks']) returned with returncode 0
PactlOk ==
    /\ mon.pc = "pactl" /\ gui.pc = "pactl"
    /\ mon' = [mon EXCEPT !.pc = "loop"]
    /\ gui' = [gui EXCEPT !.pc = "loop"]
    /\ UNCHANGED <<calcVars, resVars, nlines, seen, uiVars>>

\* returncode != 0: return []
PactlFailed ==
    /\ mon.pc = "pactl" /\ gui.pc = "pactl"
    /\ mon' = [mon EXCEPT !.pc = "done", !.result = <<>>]
    /\ gui' = [gui EXCEPT !.pc = "done", !.result = <<>>]
    /\ UNCHANGED <<calcVars, resVars, nlines, seen, uiVars>>

\* subprocess.run raised (pactl missing, or the GUI's 5 s timeout)
PactlRaised ==
    /\ mon.pc = "pactl" /\ gui.pc = "pactl"
    /\ mon' = MonitorRaise(mon)
    /\ gui' = GuiRaise(gui)
    /\ UNCHANGED <<calcVars, resVars, nlines, seen, uiVars>>

ParseLine(line) ==
    /\ nlines < MaxLines
    /\ mon.pc = "loop" \/ gui.pc = "loop"
    /\ mon' = IF mon.pc = "loop" THEN MonitorLine(mon, line, source) ELSE mon
    /\ gui' = IF gui.pc = "loop" THEN GuiLine(gui, line, source) ELSE gui
    /\ nlines' = nlines + 1
    /\ seen' = SeenLine(seen, line)
    /\ UNCHANGED <<calcVars, resVars, uiVars>>

ParseEnd ==
    /\ mon.pc = "loop" \/ gui.pc = "loop"
    /\ mon' = IF mon.pc = "loop" THEN MonitorReturn(mon) ELSE mon
    /\ gui' = IF gui.pc = "loop" THEN GuiReturn(gui) ELSE gui
    /\ UNCHANGED <<calcVars, resVars, nlines, seen, uiVars>>

-----------------------------------------------------------------------------
(* GUI: the configuration tab of BluetoothBitrateWindow.  The value of the   *)
(* bitpool slider is a float; it is counted here in halves of a unit, so     *)
(* that 94 stands for 47.0 and 167 for 83.5.                                 *)

AdjustmentValue == 47

AdjustmentLower == 20

AdjustmentUpper == 84

\* mutant: the adjustment does not bound the value
AdjustmentUnclamped(value) == value

\* Gtk.Adjustment keeps its value in [lower, upper - page_size]; page_size = 0
AdjustmentClamp(value) ==
    IF value < 2 * AdjustmentLower THEN 2 * AdjustmentLower
    ELSE IF value > 2 * AdjustmentUpper THEN 2 * AdjustmentUpper
    ELSE value

\* int(x) of a float x >= 0 counted in halves
PyInt(value) == value \div 2

\* 44100 if get_selected() == 0 else 48000
SelectedRate(selected) == IF selected = 0 THEN 44100 ELSE 48000

\* BluetoothBitrateWindow.calculate_sbc_bitrate
WindowBitrate(bitpool, sample_rate) ==
    calculate_sbc_bitrate(bitpool, sample_rate, "dual_channel", 16, 8)

\* the markup of bitpool_value_label
ValueLabel(bitpool, sample_rate) ==
    "<b>" \o ToString(bitpool) \o "</b> (~"
        \o format_bitrate(WindowBitrate(bitpool, sample_rate)) \o ")"

\* the values a drag, a key press or a click on the slider may ask for
SliderRequests == {30, 39, 40, 41, 64, 94, 95, 128, 167, 168, 169, 180, 500, 600}

\* the tab after create_config_tab: calculator_bitpool is the bitpool of the
\* last call of the calculator, patch the bitpools of the patch file written
WindowStart ==
    [slider |-> 2 * AdjustmentValue, requested |-> 2 * AdjustmentValue,
     selected |-> 0, xq |-> TRUE,
     calculator_bitpool |-> 47, label |-> ValueLabel(47, 44100),
     build |-> "idle", patch |-> None]

\* on_bitpool_changed and on_rate_changed: the label follows the slider and
\* the dropdown
WindowRefresh(w) ==
    [w EXCEPT !.calculator_bitpool = PyInt(w.slider),
              !.label = ValueLabel(PyInt(w.slider), SelectedRate(w.selected))]

\* the slider is moved: "value-changed" is emitted when the value changed
SliderMove(value) ==
    /\ win # None
    /\ AdjustmentClamp(value) # win.slider
    /\ win' = WindowRefresh([win EXCEPT !.slider = AdjustmentClamp(value),
                                        !.requested = value])
    /\ UNCHANGED <<calcVars, resVars, parseVars, proc, priv, sudo, callers, disp>>

\* another sample rate is selected: "notify::selected"
RateSelect(selected) ==
    /\ win # None
    /\ selected # win.selected
    /\ win' = WindowRefresh([win EXCEPT !.selected = selected])
    /\ UNCHANGED <<calcVars, resVars, parseVars, proc, priv, sudo, callers, disp>>

XqToggle ==
    /\ win # None
    /\ win' = [win EXCEPT !.xq = ~@]
    /\ UNCHANGED <<calcVars, resVars, parseVars, proc, priv, sudo, callers, disp>>

\* on_build_clicked: the button is made insensitive and build_thread started
BuildClick ==
    /\ win # None
    /\ win.build = "idle"
    /\ win' = [win EXCEPT !.build = "started"]
    /\ UNCHANGED <<calcVars, resVars, parseVars, proc, priv, sudo, callers, disp>>

\* build_thread reads the widgets and writes the patch file, unless creating
\* the directory or the file raises
BuildPatch(written) ==
    /\ win # None
    /\ win.build = "started"
    /\ win' = [win EXCEPT !.build = "patched",
                          !.patch = IF written
                                    THEN [bitpool |-> PyInt(win.slider),
                                          bitpool_48k |-> PyInt(win.slider)]
                                    ELSE @]
    /\ UNCHANGED <<calcVars, resVars, parseVars, proc, priv, sudo, callers, disp>>

\* the rest of build_thread (WirePlumber configuration, build script) leaves
\* the tab alone; at its end the button is made sensitive again
BuildFinish ==
    /\ win # None
    /\ win.build = "patched"
    /\ win' = [win EXCEPT !.build = "idle"]
    /\ UNCHANGED <<calcVars, resVars, parseVars, proc, priv, sudo, callers, disp>>

-----------------------------------------------------------------------------
(* Terminal monitor: one run of main.  A query pass is get_pactl_bt_info()   *)
(* followed, when it returned no device, by get_bt_devices(); both catch     *)
(* every Exception and return a list.                                        *)

\* the values of --interval tried (type=int, default 2)
Intervals == -1 .. 2

MaxPasses == 3

\* mutant: the interval is checked before --once
main_branch_interval_first(once, interval) ==
    IF interval < 1 THEN "exit2" ELSE IF once THEN "once" ELSE "loop"

\* the branch main takes after parse_args
main_branch(once, interval) ==
    IF once THEN "once" ELSE IF interval < 1 THEN "exit2" ELSE "loop"

\* main was called with these arguments and has parsed them
MainStart(once, interval, watch) ==
    [once |-> once, interval |-> interval, watch |-> watch, pc |-> "args",
     passes |-> 0, pactl_calls |-> 0, pw_dump_calls |-> 0,
     printed |-> "nothing", exit_code |-> None]

\* devices = get_pactl_bt_info(); if not devices: devices = get_bt_devices();
\* then the devices, or the "No Bluetooth audio devices found" line, printed
QueryPass(p, pactl_found, pw_dump_found) ==
    [p EXCEPT !.passes = @ + 1,
              !.pactl_calls = @ + 1,
              !.pw_dump_calls = IF pactl_found THEN @ ELSE @ + 1,
              !.printed = IF pactl_found \/ pw_dump_found
                          THEN "devices" ELSE "none found"]

\* if args.once / if args.interval < 1: return 2 / monitor_loop(args.interval)
MainBranch ==
    /\ proc # None /\ proc.pc = "args"
    /\ proc' = IF main_branch(proc.once, proc.interval) = "exit2"
               THEN [proc EXCEPT !.pc = "done", !.exit_code = <<2>>,
                                 !.printed = "interval error"]
               ELSE [proc EXCEPT !.pc = main_branch(proc.once, proc.interval)]
    /\ UNCHANGED <<calcVars, resVars, parseVars, win, priv, sudo, callers, disp>>

\* the --once branch: one pass, return 0
MainOnce(pactl_found, pw_dump_found) ==
    /\ proc # None /\ proc.pc = "once"
    /\ proc' = [QueryPass(proc, pactl_found, pw_dump_found)
                    EXCEPT !.pc = "done", !.exit_code = <<0>>]
    /\ UNCHANGED <<calcVars, resVars, parseVars, win, priv, sudo, callers, disp>>

\* one turn of monitor_loop's while True, up to its time.sleep(interval)
LoopPass(pactl_found, pw_dump_found) ==
    /\ proc # None /\ proc.pc = "loop"
    /\ proc.passes < MaxPasses
    /\ proc' = QueryPass(proc, pactl_found, pw_dump_found)
    /\ UNCHANGED <<calcVars, resVars, parseVars, win, priv, sudo, callers, disp>>

\* KeyboardInterrupt in monitor_loop: sys.exit(0)
LoopInterrupt ==
    /\ proc # None /\ proc.pc = "loop"
    /\ proc' = [proc EXCEPT !.pc = "done", !.exit_code = <<0>>]
    /\ UNCHANGED <<calcVars, resVars, parseVars, win, priv, sudo, callers, disp>>

-----------------------------------------------------------------------------
(* GUI: privilege escalation.  An environment is what the module-level       *)
(* constants of gui.py record at import: IS_FLATPAK, FLATPAK_SPAWN, and the  *)
(* commands shutil.which finds (path); host holds the commands found on the  *)
(* host system, which inside a Flatpak sandbox is reached by flatpak-spawn.  *)

Helpers == {"pkexec", "sudo"}

\* BIN_MKDIR, the first word of the command of gui.py:809
PrivilegedArgs == <<"mkdir", "-p">>

PrivEnvironments ==
    {[is_flatpak |-> TRUE, flatpak_spawn |-> spawn, path |-> {"mkdir"},
      host |-> host] :
        spawn \in BOOLEAN, host \in SUBSET (Helpers \cup {"mkdir"})}
    \cup
    {[is_flatpak |-> FALSE, flatpak_spawn |-> FALSE,
      path |-> found \cup {"mkdir"}, host |-> found \cup {"mkdir"}] :
        found \in SUBSET Helpers}

\* the sudo timestamp and the module global _sudo_keepalive_thread: "none" is
\* None, "running" a live thread, "exited" a thread whose loop has ended
SudoStart(ticket) == [ticket |-> ticket, thread |-> "none", last |-> None]

\* ensure_sudo_ticket raised: nothing else changes
SudoRaise(s) ==
    [s EXCEPT !.last = [raised |-> TRUE, validated |-> FALSE,
                        keepalive |-> s.thread]]

\* 'sudo -n true' or the 'sudo -v' prompt succeeded; under the lock a thread
\* is started only if _sudo_keepalive_thread is None
SudoValidated(s, thread) ==
    [ticket |-> TRUE, thread |-> thread,
     last |-> [raised |-> FALSE, validated |-> TRUE, keepalive |-> thread]]

ensure_sudo_ticket(env, s, prompt_ok) ==
    IF "sudo" \notin env.path THEN SudoRaise(s)
    ELSE IF ~s.ticket /\ ~prompt_ok THEN SudoRaise(s)
    ELSE SudoValidated(s, IF s.thread = "none" THEN "running" ELSE s.thread)

\* _host_command; None stands for its RuntimeError
host_command(env, args) ==
    IF env.is_flatpak
    THEN IF ~env.flatpak_spawn THEN None
         ELSE <<"flatpak-spawn", "--host">> \o args
    ELSE args

\* _host_has; the host does not change, so lru_cache changes nothing
host_has(env, command) ==
    IF ~env.is_flatpak THEN command \in env.path
    ELSE IF ~env.flatpak_spawn THEN FALSE
    ELSE command \in env.host

\* the outcome of a call: the command handed to subprocess.run, or raised
Ran(command, s) == [raised |-> command = None, command |-> command, sudo |-> s]

Raised(s) == [raised |-> TRUE, command |-> None, sudo |-> s]

\* the branch taken after ensure_sudo_ticket()
AfterTicket(command, s) ==
    IF s.last.raised THEN Raised(s) ELSE Ran(command, s)

run_privileged_command(env, s, args, tty, prompt_ok) ==
    IF env.is_flatpak
    THEN IF host_has(env, "pkexec")
         THEN Ran(host_command(env, <<"pkexec">> \o args), s)
         ELSE IF host_has(env, "sudo")
         THEN Ran(host_command(env, <<"sudo">> \o args), s)
         ELSE IF host_has(env, Head(args))
         THEN Ran(host_command(env, args), s)
         ELSE Raised(s)
    ELSE IF "pkexec" \in env.path
         THEN Ran(<<"pkexec">> \o args, s)
         ELSE IF "sudo" \in env.path /\ tty
         THEN AfterTicket(<<"sudo">> \o args,
                          ensure_sudo_ticket(env, s, prompt_ok))
         ELSE IF "sudo" \in env.path
         THEN AfterTicket(<<"sudo">> \o args,
                          ensure_sudo_ticket(env, s, prompt_ok))
         ELSE Raised(s)

\* initialize_privileges: the sudo state it leaves, and whether it raised
initialize_privileges(env, s, tty, prompt_ok, pkexec_ok) ==
    IF env.is_flatpak THEN [raised |-> FALSE, sudo |-> s]
    ELSE IF "sudo" \in env.path /\ tty
    THEN [raised |-> ensure_sudo_ticket(env, s, prompt_ok).last.raised,
          sudo |-> ensure_sudo_ticket(env, s, prompt_ok)]
    ELSE IF "pkexec" \in env.path
    THEN [raised |-> ~pkexec_ok, sudo |-> s]
    ELSE IF "sudo" \in env.path
    THEN [raised |-> ensure_sudo_ticket(env, s, prompt_ok).last.raised,
          sudo |-> ensure_sudo_ticket(env, s, prompt_ok)]
    ELSE [raised |-> TRUE, sudo |-> s]

PrivStart(env) == [env |-> env, init |-> "pending", last |-> None]

\* request_initial_privileges: the worker thread started with the window
InitializePrivileges(tty, prompt_ok, pkexec_ok) ==
    /\ priv # None /\ priv.init = "pending"
    /\ priv' = [priv EXCEPT !.init =
                   IF initialize_privileges(priv.env, sudo, tty, prompt_ok,
                                            pkexec_ok).raised
                   THEN "raised" ELSE "ready"]
    /\ sudo' = initialize_privileges(priv.env, sudo, tty, prompt_ok,
                                     pkexec_ok).sudo
    /\ UNCHANGED <<calcVars, resVars, parseVars, win, proc, callers, disp>>

\* a handler (on_build_clicked, on_restart_bluetooth) runs a command
RunPrivilegedCommand(tty, prompt_ok) ==
    /\ priv # None
    /\ priv' = [priv EXCEPT !.last =
                   [raised |-> run_privileged_command(priv.env, sudo,
                                   PrivilegedArgs, tty, prompt_ok).raised,
                    command |-> run_privileged_command(priv.env, sudo,
                                   PrivilegedArgs, tty, prompt_ok).command]]
    /\ sudo' = run_privileged_command(priv.env, sudo, PrivilegedArgs, tty,
                                      prompt_ok).sudo
    /\ UNCHANGED <<calcVars, resVars, parseVars, win, proc, callers, disp>>

\* _keepalive: after the sleep, 'sudo -n -v' renews a valid ticket; the loop
\* breaks when it fails, and _sudo_keepalive_thread keeps the dead thread
KeepaliveTick ==
    /\ sudo # None /\ sudo.thread = "running"
    /\ sudo' = IF sudo.ticket THEN sudo ELSE [sudo EXCEPT !.thread = "exited"]
    /\ UNCHANGED <<calcVars, resVars, parseVars, win, proc, priv, callers, disp>>

\* the sudo timestamp stops being valid ('sudo -k', a suspended machine, a
\* timestamp_timeout shorter than the keepalive's 60 s)
TicketExpire ==
    /\ sudo # None /\ sudo.ticket
    /\ sudo' = [sudo EXCEPT !.ticket = FALSE]
    /\ UNCHANGED <<calcVars, resVars, parseVars, win, proc, priv, callers, disp>>

-----------------------------------------------------------------------------
(* GUI: ensure_sudo_ticket called from several threads, statement by         *)
(* statement.  The callers are the worker of request_initial_privileges,     *)
(* the build thread of on_build_clicked and the main thread                  *)
(* (on_restart_bluetooth).  At "lock" a caller waits for                     *)
(* _sudo_keepalive_lock, from "test" to "release" it holds it.               *)

Threads == {"worker", "build", "main"}

\* no caller is inside the function, the lock is free, no keepalive thread
\* has been started
CallersStart ==
    [pc |-> [t \in Threads |-> "idle"], lock |-> None, started |-> 0]

\* mutant: the lock does not exclude
CanAcquireAlways(c) == TRUE

\* 'with _sudo_keepalive_lock:' is entered when no thread holds the lock
CanAcquire(c) == c.lock = None

\* the call, 'if not SUDO_PATH: raise', and 'sudo -n true'
TicketCheck(t) ==
    /\ callers # None /\ callers.pc[t] \in {"idle", "returned", "raised"}
    /\ IF "sudo" \notin priv.env.path
       THEN /\ callers' = [callers EXCEPT !.pc[t] = "raised"]
            /\ sudo' = SudoRaise(sudo)
       ELSE /\ callers' = [callers EXCEPT !.pc[t] =
                              IF sudo.ticket THEN "lock" ELSE "prompt"]
            /\ sudo' = sudo
    /\ UNCHANGED <<calcVars, resVars, parseVars, win, proc, priv, disp>>

\* 'sudo -v': the ticket is valid when the prompt succeeds, else RuntimeError
TicketPrompt(t, prompt_ok) ==
    /\ callers # None /\ callers.pc[t] = "prompt"
    /\ callers' = [callers EXCEPT !.pc[t] =
                      IF prompt_ok THEN "lock" ELSE "raised"]
    /\ sudo' = IF prompt_ok THEN [sudo EXCEPT !.ticket = TRUE]
               ELSE SudoRaise(sudo)
    /\ UNCHANGED <<calcVars, resVars, parseVars, win, proc, priv, disp>>

LockAcquire(t) ==
    /\ callers # None /\ callers.pc[t] = "lock"
    /\ CanAcquire(callers)
    /\ callers' = [callers EXCEPT !.pc[t] = "test", !.lock = Some(t)]
    /\ UNCHANGED <<calcVars, resVars, parseVars, win, proc, priv, sudo, disp>>

\* if _sudo_keepalive_thread is None
KeepaliveTest(t) ==
    /\ callers # None /\ callers.pc[t] = "test"
    /\ callers' = [callers EXCEPT !.pc[t] =
                      IF sudo.thread = "none" THEN "start" ELSE "release"]
    /\ UNCHANGED <<calcVars, resVars, parseVars, win, proc, priv, sudo, disp>>

\* thread.start(): the new thread begins with time.sleep(60)
KeepaliveStart(t) ==
    /\ callers # None /\ callers.pc[t] = "start"
    /\ callers' = [callers EXCEPT !.pc[t] = "assign", !.started = @ + 1]
    /\ UNCHANGED <<calcVars, resVars, parseVars, win, proc, priv, sudo, disp>>

\* _sudo_keepalive_thread = thread
KeepaliveAssign(t) ==
    /\ callers # None /\ callers.pc[t] = "assign"
    /\ callers' = [callers EXCEPT !.pc[t] = "release"]
    /\ sudo' = [sudo EXCEPT !.thread = "running"]
    /\ UNCHANGED <<calcVars, resVars, parseVars, win, proc, priv, disp>>

\* the end of the with block, and the return
LockRelease(t) ==
    /\ callers # None /\ callers.pc[t] = "release"
    /\ callers' = [callers EXCEPT !.pc[t] = "returned", !.lock = None]
    /\ sudo' = SudoValidated(sudo, sudo.thread)
    /\ UNCHANGED <<calcVars, resVars, parseVars, win, proc, priv, disp>>

-----------------------------------------------------------------------------
(* GUI: the display updates.  update_device_display runs on the GTK main     *)
(* loop, from an idle callback queued by the monitoring thread every 2 s or  *)
(* from the click of "Refresh Now", and makes its query inside the call.     *)
(* pending counts the idle callbacks queued and not yet run, issued the      *)
(* queries started, shown the query whose devices the list shows.            *)

MaxPending == 3

MaxQueries == 8

\* after __init__: self.monitoring = True and the thread started
DisplayStart ==
    [monitoring |-> TRUE, pending |-> 0, main |-> "idle", in_flight |-> 0,
     issued |-> 0, shown |-> 0]

\* update_device_display up to its call of get_bluetooth_devices
UpdateBegin(d) ==
    [d EXCEPT !.main = "query", !.in_flight = @ + 1, !.issued = @ + 1]

\* monitor_loop: GLib.idle_add(self.update_device_display), then 2 s of
\* sleep; an idle main loop runs the callback well within the 2 s
MonitorLoopTick ==
    /\ disp # None /\ disp.monitoring
    /\ disp.pending < MaxPending
    /\ ~(disp.main = "idle" /\ disp.pending > 0)
    /\ disp' = [disp EXCEPT !.pending = @ + 1]
    /\ UNCHANGED <<calcVars, resVars, parseVars, win, proc, priv, sudo, callers>>

\* the main loop, between two callbacks, runs a queued idle callback
IdleDispatch ==
    /\ disp # None /\ disp.main = "idle"
    /\ disp.pending > 0 /\ disp.issued < MaxQueries
    /\ disp' = UpdateBegin([disp EXCEPT !.pending = @ - 1])
    /\ UNCHANGED <<calcVars, resVars, parseVars, win, proc, priv, sudo, callers>>

\* on_refresh_clicked: the main loop, between two callbacks, runs the handler
RefreshClicked ==
    /\ disp # None /\ disp.main = "idle"
    /\ disp.issued < MaxQueries
    /\ disp' = UpdateBegin(disp)
    /\ UNCHANGED <<calcVars, resVars, parseVars, win, proc, priv, sudo, callers>>

\* get_bluetooth_devices returns, the cards are built, the callback returns
UpdateEnd ==
    /\ disp # None /\ disp.main = "query"
    /\ disp' = [disp EXCEPT !.main = "idle", !.in_flight = @ - 1,
                            !.shown = disp.issued]
    /\ UNCHANGED <<calcVars, resVars, parseVars, win, proc, priv, sudo, callers>>

\* do_close_request: self.monitoring = False
CloseRequest ==
    /\ disp # None /\ disp.main = "idle" /\ disp.monitoring
    /\ disp' = [disp EXCEPT !.monitoring = FALSE]
    /\ UNCHANGED <<calcVars, resVars, parseVars, win, proc, priv, sudo, callers>>

-----------------------------------------------------------------------------
(* Specifications *)

\* the parsers
Init ==
    /\ CalcIdle
    /\ source \in ParseSources
    /\ source_up = TRUE
    /\ ResNoCall
    /\ ParseIdle
    /\ UiIdle

Next ==
    \/ PactlOk
    \/ PactlFailed
    \/ PactlRaised
    \/ \E line \in InputLines : ParseLine(line)
    \/ ParseEnd

Spec == Init /\ [][Next]_vars

\* the calculator
InitCalc ==
    /\ cfg \in CalcConfigs
    /\ calc_result = None
    /\ calc_pc = "call"
    /\ ResIdle
    /\ ParseIdle
    /\ UiIdle

NextCalc == Calculate

SpecCalc == InitCalc /\ [][NextCalc]_vars

\* the resolver
InitResolve ==
    /\ CalcIdle
    /\ source \in ResolveSources
    /\ source_up = TRUE
    /\ ResNoCall
    /\ ParseIdle
    /\ UiIdle

NextResolve == \E address \in QueryAddresses : Resolve(address)

SpecResolve == InitResolve /\ [][NextResolve]_vars

\* the resolver called again and again while the source changes
InitResolveSeq ==
    /\ CalcIdle
    /\ source \in ParseSources
    /\ source_up \in BOOLEAN
    /\ ResNoCall
    /\ ParseIdle
    /\ UiIdle

NextResolveSeq ==
    \/ \E address \in QueryAddresses : Resolve(address)
    \/ \E record \in ParseRecords : Renegotiate(record)
    \/ SourceUpDown

SpecResolveSeq == InitResolveSeq /\ [][NextResolveSeq]_vars

\* the configuration tab
InitWindow ==
    /\ CalcIdle
    /\ ResIdle
    /\ ParseIdle
    /\ win = WindowStart
    /\ proc = None /\ priv = None /\ sudo = None
    /\ callers = None /\ disp = None

NextWindow ==
    \/ \E value \in SliderRequests : SliderMove(value)
    \/ \E selected \in {0, 1} : RateSelect(selected)
    \/ XqToggle
    \/ BuildClick
    \/ \E written \in BOOLEAN : BuildPatch(written)
    \/ BuildFinish

SpecWindow == InitWindow /\ [][NextWindow]_vars

\* the terminal monitor
InitMain ==
    /\ CalcIdle
    /\ ResIdle
    /\ ParseIdle
    /\ win = None /\ priv = None /\ sudo = None
    /\ callers = None /\ disp = None
    /\ \E once \in BOOLEAN, interval \in Intervals, watch \in BOOLEAN :
          proc = MainStart(once, interval, watch)

NextMain ==
    \/ MainBranch
    \/ \E pactl_found \in BOOLEAN, pw_dump_found \in BOOLEAN :
          MainOnce(pactl_found, pw_dump_found)
    \/ \E pactl_found \in BOOLEAN, pw_dump_found \in BOOLEAN :
          LoopPass(pactl_found, pw_dump_found)
    \/ LoopInterrupt

SpecMain == InitMain /\ [][NextMain]_vars

\* privilege escalation
InitPriv ==
    /\ CalcIdle
    /\ ResIdle
    /\ ParseIdle
    /\ win = None /\ proc = None
    /\ callers = None /\ disp = None
    /\ \E env \in PrivEnvironments : priv = PrivStart(env)
    /\ \E ticket \in BOOLEAN : sudo = SudoStart(ticket)

NextPriv ==
    \/ \E tty \in BOOLEAN, prompt_ok \in BOOLEAN, pkexec_ok \in BOOLEAN :
          InitializePrivileges(tty, prompt_ok, pkexec_ok)
    \/ \E tty \in BOOLEAN, prompt_ok \in BOOLEAN :
          RunPrivilegedCommand(tty, prompt_ok)
    \/ KeepaliveTick
    \/ TicketExpire

SpecPriv == InitPriv /\ [][NextPriv]_vars

\* ensure_sudo_ticket called from several threads; pkexec and Flatpak play
\* no part in it
InitTicket ==
    /\ CalcIdle
    /\ ResIdle
    /\ ParseIdle
    /\ win = None /\ proc = None /\ disp = None
    /\ \E env \in PrivEnvironments :
          /\ ~env.is_flatpak /\ "pkexec" \notin env.path
          /\ priv = PrivStart(env)
    /\ \E ticket \in BOOLEAN : sudo = SudoStart(ticket)
    /\ callers = CallersStart

NextTicket ==
    \/ \E t \in Threads : TicketCheck(t)
    \/ \E t \in Threads, prompt_ok \in BOOLEAN : TicketPrompt(t, prompt_ok)
    \/ \E t \in Threads : LockAcquire(t)
    \/ \E t \in Threads : KeepaliveTest(t)
    \/ \E t \in Threads : KeepaliveStart(t)
    \/ \E t \in Threads : KeepaliveAssign(t)
    \/ \E t \in Threads : LockRelease(t)
    \/ KeepaliveTick
    \/ TicketExpire

SpecTicket == InitTicket /\ [][NextTicket]_vars

\* the display updates
InitDisplay ==
    /\ CalcIdle
    /\ ResIdle
    /\ ParseIdle
    /\ win = None /\ proc = None /\ priv = None /\ sudo = None
    /\ callers = None
    /\ disp = DisplayStart

NextDisplay ==
    \/ MonitorLoopTick
    \/ IdleDispatch
    \/ RefreshClicked
    \/ UpdateEnd
    \/ CloseRequest

SpecDisplay == InitDisplay /\ [][NextDisplay]_vars

-----------------------------------------------------------------------------
(* Properties *)

Abs(x) == IF x < 0 THEN -x ELSE x

\* sample_rate=44100, channel_mode=dual_channel, block_length=16, subbands=8
IsReference(config) ==
    /\ config["sample_rate"] = 44100
    /\ config["channel_mode"] = "dual_channel"
    /\ config["block_length"] = 16
    /\ config["subbands"] = 8

\* the bitrate the calculator gives for config with another channel mode / bitpool
BitrateWithMode(config, channel_mode) ==
    sbc_bitrate_from_config([config EXCEPT !["channel_mode"] = channel_mode])[1]

BitrateWithBitpool(config, bitpool) ==
    sbc_bitrate_from_config(WithBitpool(config, bitpool))[1]

Calculated == calc_pc = "done" /\ HasBitpool(cfg)

\* C1: for dual_channel, 44100 Hz, block_length 16, subbands 8 the calculated
\* bitrate is within 1000 bps of the value printed at the slider mark of the
\* bitpool: 386,000 for 32, 551,000 for 47, 738,000 for 64.
C1_SliderMarkValues ==
    (Calculated /\ IsReference(cfg) /\ cfg["effective_bitpool"] \in SliderMarks)
        => Abs(calc_result[1] - 1000 * SliderMarkKbps(cfg["effective_bitpool"]))
                <= 1000

C1_Witness ==
    /\ Calculated /\ IsReference(cfg)
    /\ cfg["effective_bitpool"] = 47
    /\ calc_result = Some(551250)

\* C2: the calculator returns None exactly when effective_bitpool is absent,
\* and for a valid configuration with effective_bitpool present the call
\* completes with a non-negative integer.
C2_NoneIffAbsent ==
    /\ calc_pc = "call" => ENABLED Calculate
    /\ calc_pc = "done" =>
        /\ calc_result = None <=> ~HasBitpool(cfg)
        /\ HasBitpool(cfg) => calc_result[1] \in Nat

C2_Witness ==
    calc_pc = "done" /\ ~HasBitpool(cfg) /\ calc_result = None

\* C6 as stated: with the other parameters fixed, stereo and joint_stereo give
\* a strictly higher bitrate than mono and than dual_channel.
C6_Original ==
    (Calculated /\ cfg["channel_mode"] \in {"stereo", "joint_stereo"})
        => /\ calc_result[1] > BitrateWithMode(cfg, "mono")
           /\ calc_result[1] > BitrateWithMode(cfg, "dual_channel")

\* C6 as amended: stereo and joint_stereo give a strictly higher bitrate than
\* mono, and a bitrate not higher than dual_channel.
C6_ChannelModeOrder ==
    (Calculated /\ cfg["channel_mode"] \in {"stereo", "joint_stereo"})
        => /\ calc_result[1] > BitrateWithMode(cfg, "mono")
           /\ calc_result[1] <= BitrateWithMode(cfg, "dual_channel")

C6_Witness ==
    /\ Calculated /\ cfg["channel_mode"] = "stereo"
    /\ calc_result[1] > BitrateWithMode(cfg, "mono")
    /\ calc_result[1] < BitrateWithMode(cfg, "dual_channel")

\* C7: with sample_rate, channel_mode, block_length and subbands fixed, the
\* bitrate of a bitpool b1 is at most the bitrate of any bitpool b2 >= b1
\* in [2, 250].
C7_Monotone ==
    Calculated =>
        \A b1 \in MinBitpool..cfg["effective_bitpool"] :
            BitrateWithBitpool(cfg, b1) <= calc_result[1]

C7_Witness ==
    /\ Calculated /\ cfg["effective_bitpool"] = MaxBitpool
    /\ BitrateWithBitpool(cfg, MinBitpool) < calc_result[1]

\* the record the source holds for the address of the last resolve call
Resolved(address) ==
    /\ res_pc = "done" /\ res_addr = Some(address)
    /\ address \in DOMAIN source
    /\ source[address] # None

\* C4: when the source reports a single negotiated bitpool the configuration's
\* effective_bitpool is that value; when it reports only the min/max range the
\* effective_bitpool is absent (not the minimum, the maximum or anything derived).
C4_VerbatimOrAbsent ==
    \A address \in QueryAddresses :
        Resolved(address) =>
            /\ res_result # None
            /\ IF "bitpool" \in DOMAIN source[address]
               THEN /\ HasBitpool(res_result)
                    /\ res_result["effective_bitpool"] = source[address]["bitpool"]
               ELSE ~HasBitpool(res_result)

C4_Witness ==
    /\ Resolved(DeviceAddress)
    /\ "bitpool" \notin DOMAIN source[DeviceAddress]
    /\ source[DeviceAddress]["min_bitpool"] < source[DeviceAddress]["max_bitpool"]
    /\ res_result # None /\ ~HasBitpool(res_result)

-----------------------------------------------------------------------------
(* Properties of the parsers *)

\* the calls of the SBC branch made so far by either parser
SbcCalls == mon.sbc_log \cup gui.sbc_log

\* the devices a parser has returned
Returned(st) ==
    IF st.pc = "done" THEN {st.result[i] : i \in 1..Len(st.result)} ELSE {}

Reported == Returned(mon) \cup Returned(gui)

RawCodec(device) == DictGet(device, "codec_raw", "")

Codec(device) == DictGet(device, "codec", "Unknown")

Bitrate(device) == DictGet(device, "bitrate", "Unknown")

Estimates ==
    {MonitorEstimate(x) : x \in BOOLEAN} \cup {GuiEstimate(x) : x \in BOOLEAN}

\* "<formatted> (bitpool N)" for the calculator's result on config
ComputedString(config) ==
    format_bitrate(sbc_bitrate_from_config(config)[1]) \o " (bitpool "
        \o ToString(config["effective_bitpool"]) \o ")"

\* C3 as stated: no configuration with effective_bitpool absent is passed to
\* the calculator.
C3_Original ==
    \A call \in SbcCalls :
        call.calculator_arg # None => HasBitpool(call.calculator_arg)

\* C3 as amended: the callers pass every configuration the resolver returns to
\* the calculator, also one whose effective_bitpool is absent, and check the
\* bitpool afterwards; for such a configuration the calculator returns None and
\* the caller stores the codec-class estimate.
C3_CheckedAfterCall ==
    \A call \in SbcCalls :
        /\ call.calculator_arg = call.config
        /\ (call.config # None /\ ~HasBitpool(call.config)) =>
                /\ sbc_bitrate_from_config(call.calculator_arg) = None
                /\ call.shown \in Estimates

C3_Witness ==
    \E call \in mon.sbc_log :
        /\ call.calculator_arg # None /\ ~HasBitpool(call.calculator_arg)
        /\ call.shown = MonitorEstimate(call.is_xq)

DigitOf(ch) == Find("0123456789", ch) - 1

RECURSIVE DigitsValue(_)
DigitsValue(s) ==
    IF s = "" THEN 0
    ELSE 10 * DigitsValue(Slice(s, 1, Len(s) - 1)) + DigitOf(Char(s, Len(s)))

\* the number of kbps a bitrate string starts with, after its "~" if any
KbpsShown(bitrate) ==
    LET i == RunEnd(bitrate, 1, {"~"})
    IN DigitsValue(Slice(bitrate, i, RunEnd(bitrate, i, DigitChars) - 1))

StandardEstimates == {MonitorEstimate(FALSE), GuiEstimate(FALSE)}

XqEstimates == {MonitorEstimate(TRUE), GuiEstimate(TRUE)}

\* C5 as stated: the estimates of standard SBC and SBC-XQ equal the kbps the
\* formula gives at 44100 Hz, dual_channel, 16 blocks, 8 subbands for bitpool
\* 32 and bitpool 47.
C5_Original ==
    (Calculated /\ IsReference(cfg)) =>
        /\ cfg["effective_bitpool"] = 32 =>
                \A e \in StandardEstimates :
                    KbpsShown(e) = KbpsShown(format_bitrate(calc_result[1]))
        /\ cfg["effective_bitpool"] = 47 =>
                \A e \in XqEstimates :
                    KbpsShown(e) = KbpsShown(format_bitrate(calc_result[1]))

\* C5 as amended: the SBC-XQ estimate is within 1 kbps of the formula's output
\* at the reference settings with bitpool 47 (551,250 bps); the standard SBC
\* estimate is more than 1 kbps below the output with bitpool 32 (385,875 bps)
\* and equals, in kbps, the output for joint_stereo with bitpool 53.
C5_EstimatesAgainstFormula ==
    Calculated =>
        /\ (IsReference(cfg) /\ cfg["effective_bitpool"] = 47) =>
                \A e \in XqEstimates :
                    Abs(1000 * KbpsShown(e) - calc_result[1]) <= 1000
        /\ (IsReference(cfg) /\ cfg["effective_bitpool"] = 32) =>
                \A e \in StandardEstimates :
                    1000 * KbpsShown(e) < calc_result[1] - 1000
        /\ (/\ IsReference([cfg EXCEPT !["channel_mode"] = "dual_channel"])
            /\ cfg["channel_mode"] = "joint_stereo"
            /\ cfg["effective_bitpool"] = 53) =>
                \A e \in StandardEstimates :
                    KbpsShown(e) = KbpsShown(format_bitrate(calc_result[1]))

C5_Witness ==
    /\ Calculated /\ IsReference(cfg)
    /\ cfg["effective_bitpool"] = 47
    /\ KbpsShown(format_bitrate(calc_result[1])) = 551
    /\ KbpsShown(MonitorEstimate(TRUE)) = 552

\* C8: a device whose raw codec string names mSBC or CVSD is reported with
\* that codec label and the fixed estimate of about 64 kbps.
C8_Original ==
    \A device \in Reported :
        /\ In("msbc", LowerOf(RawCodec(device))) =>
                Codec(device) = "mSBC" /\ Bitrate(device) = "~64 kbps"
        /\ In("cvsd", LowerOf(RawCodec(device))) =>
                Codec(device) = "CVSD" /\ Bitrate(device) = "~64 kbps"

\* the bitrate of the static table for a lower-cased codec string without 'sbc'
TableBitrate(codec_lower) ==
    CASE In("aac", codec_lower) -> "~256 kbps"
      [] ~In("aac", codec_lower) /\ In("aptx_hd", codec_lower) -> "576 kbps"
      [] ~In("aac", codec_lower) /\ ~In("aptx_hd", codec_lower)
            /\ In("aptx", codec_lower) -> "352 kbps"
      [] ~In("aac", codec_lower) /\ ~In("aptx", codec_lower)
            /\ In("ldac", codec_lower) /\ In("hq", codec_lower) -> "~990 kbps"
      [] ~In("aac", codec_lower) /\ ~In("aptx", codec_lower)
            /\ In("ldac", codec_lower) /\ ~In("hq", codec_lower)
            /\ In("sq", codec_lower) -> "~660 kbps"
      [] ~In("aac", codec_lower) /\ ~In("aptx", codec_lower)
            /\ In("ldac", codec_lower) /\ ~In("hq", codec_lower)
            /\ ~In("sq", codec_lower) -> "~330-990 kbps"

InTable(codec_lower) ==
    \E name \in {"aac", "aptx", "ldac"} : In(name, codec_lower)

\* C9: a reported device whose raw codec string does not contain 'sbc' and
\* contains 'aac', 'aptx_hd', 'aptx' or 'ldac' carries the constant of the
\* static table (aptx_hd before aptx; ldac by 'hq', then 'sq').
C9_StaticTable ==
    \A device \in Reported :
        LET codec_lower == LowerOf(RawCodec(device))
        IN (~In("sbc", codec_lower) /\ InTable(codec_lower)) =>
                Bitrate(device) = TableBitrate(codec_lower)

C9_Witness ==
    /\ \E device \in Returned(mon) :
            RawCodec(device) = "aptx_hd" /\ Bitrate(device) = "576 kbps"
    /\ \E device \in Returned(gui) :
            RawCodec(device) = "aptx_hd" /\ Bitrate(device) = "576 kbps"

\* what C10 lets one call of the SBC branch store, given the estimates of the
\* parser that made it
SbcCallShown(call, src) ==
    /\ call.address = None => call.config = None
    /\ call.resolver_arg = None => call.config = None
    /\ call.resolver_arg # None =>
            call.config = fetch_sbc_configuration(src, call.resolver_arg[1])
    /\ IF /\ call.config # None
          /\ HasBitpool(call.config)
          /\ sbc_bitrate_from_config(call.config) # None
       THEN /\ call.shown = ComputedString(call.config)
            /\ Contains("(bitpool " \o ToString(call.config["effective_bitpool"])
                            \o ")", call.shown)
       ELSE /\ ~Contains("(bitpool", call.shown)
            /\ KbpsShown(call.shown) = IF call.is_xq THEN 552 ELSE 328

\* C10: an SBC bitrate string has a "(bitpool N)" part only when the resolver
\* returned a configuration with effective_bitpool = N and the calculator
\* returned a bitrate; otherwise (no address, no configuration, no effective
\* bitpool) it is the estimate of the codec class, 328 kbps or 552 kbps.
C10_BitpoolOnlyWhenResolved ==
    \A call \in SbcCalls :
        /\ SbcCallShown(call, source)
        /\ call.shown \in Estimates \/ call.shown = ComputedString(call.config)

C10_Witness ==
    /\ \E call \in gui.sbc_log :
            /\ call.config # None /\ HasBitpool(call.config)
            /\ call.config["effective_bitpool"] = 47
            /\ call.shown = "551 kbps (bitpool 47)"
    /\ \E call \in gui.sbc_log :
            call.address = None /\ call.shown = "~552 kbps (est.)"

\* frame_length * sample_rate * 8 of a configuration: the numerator of the
\* exact bitrate, whose denominator is block_length * subbands
ExactNumerator(config) ==
    FrameLength(config["effective_bitpool"], config["channel_mode"],
                config["block_length"], config["subbands"])
        * config["sample_rate"] * 8

ExactDenominator(config) == config["block_length"] * config["subbands"]

\* the exact bitrate of config has fractional part one half
IsTie(config) ==
    2 * (ExactNumerator(config) % ExactDenominator(config))
        = ExactDenominator(config)

\* C11: the calculated bitrate r is the integer nearest to the exact quotient
\* frame_length * sample_rate * 8 / (block_length * subbands), and the upper
\* one of the two nearest when the quotient lies exactly half way:
\* -1/2 < r - quotient <= 1/2.
C11_RoundedNearestTiesUp ==
    Calculated =>
        /\ -ExactDenominator(cfg)
                < 2 * (calc_result[1] * ExactDenominator(cfg) - ExactNumerator(cfg))
        /\ 2 * (calc_result[1] * ExactDenominator(cfg) - ExactNumerator(cfg))
                <= ExactDenominator(cfg)

C11_Witness ==
    /\ Calculated /\ IsTie(cfg)
    /\ cfg["sample_rate"] = 44100 /\ cfg["block_length"] = 16 /\ cfg["subbands"] = 8
    /\ FrameLength(cfg["effective_bitpool"], cfg["channel_mode"],
                   cfg["block_length"], cfg["subbands"]) % 4 = 2
    /\ 2 * calc_result[1] * ExactDenominator(cfg)
            = 2 * ExactNumerator(cfg) + ExactDenominator(cfg)

\* the source was readable and held a record for the address of the call
HasRecord(call) ==
    /\ call.up
    /\ call.address \in DOMAIN call.source
    /\ call.source[call.address] # None

Calls == {res_calls[i] : i \in 1..Len(res_calls)}

Reflects(call) ==
    IF HasRecord(call)
    THEN /\ call.outcome.result # None
         /\ \A field \in {"sample_rate", "channel_mode", "block_length",
                           "subbands", "min_bitpool", "max_bitpool"} :
                call.outcome.result[field] = call.source[call.address][field]
         /\ HasBitpool(call.outcome.result)
                = ("bitpool" \in DOMAIN call.source[call.address])
         /\ HasBitpool(call.outcome.result) =>
                call.outcome.result["effective_bitpool"]
                    = call.source[call.address]["bitpool"]
    ELSE call.outcome.result = None

C16_SliderBitpoolRange ==
    win # None =>
        /\ win.calculator_bitpool \in AdjustmentLower..AdjustmentUpper
        /\ win.calculator_bitpool \in Bitpools
        /\ win.patch # None =>
                /\ win.patch.bitpool \in AdjustmentLower..AdjustmentUpper
                /\ win.patch.bitpool_48k \in AdjustmentLower..AdjustmentUpper
                /\ win.patch.bitpool \in Bitpools

C16_Witness ==
    /\ win # None
    /\ win.requested = 30 /\ win.calculator_bitpool = AdjustmentLower
    /\ win.selected = 1
    /\ win.patch # None /\ win.patch.bitpool = AdjustmentUpper

\* C17: main returns 2 and queries no device when --once is absent and the
\* interval is below 1; with --once it makes exactly one query pass (pactl
\* once, pw-dump at most once) and returns 0, whatever the interval
C17_MainExitCodes ==
    proc # None =>
        /\ (~proc.once /\ proc.interval < 1) =>
              /\ proc.pactl_calls = 0 /\ proc.pw_dump_calls = 0
              /\ proc.pc = "done" => proc.exit_code = <<2>>
        /\ proc.once =>
              /\ proc.passes <= 1
              /\ proc.pc = "done" =>
                    /\ proc.exit_code = <<0>>
                    /\ proc.passes = 1 /\ proc.pactl_calls = 1
                    /\ proc.pw_dump_calls <= 1

C17_Witness ==
    /\ proc # None
    /\ proc.once /\ proc.interval = 0
    /\ proc.pc = "done" /\ proc.exit_code = <<0>>
    /\ proc.pactl_calls = 1 /\ proc.pw_dump_calls = 1

\* the helper a command is run through: the word after flatpak-spawn --host
Helper(command) ==
    IF Head(command) = "flatpak-spawn" THEN command[3] ELSE Head(command)

\* C18 as stated: run_privileged_command runs the command only through
\* pkexec or sudo, pkexec when both exist, and when neither exists it raises
\* and runs nothing, inside a Flatpak sandbox as outside
C18_Original ==
    (priv # None /\ priv.last # None) =>
        /\ ~priv.last.raised =>
              /\ Helper(priv.last.command) \in Helpers
              /\ host_has(priv.env, "pkexec") =>
                    Helper(priv.last.command) = "pkexec"
        /\ (~host_has(priv.env, "pkexec") /\ ~host_has(priv.env, "sudo")) =>
              priv.last.raised /\ priv.last.command = None

\* C19 as stated: when ensure_sudo_ticket returns without raising, the
\* ticket was validated and a keepalive thread is running
C19_Original ==
    (sudo # None /\ sudo.last # None /\ ~sudo.last.raised) =>
        sudo.last.validated /\ sudo.last.keepalive = "running"

\* the value of the codec line an entry of the result was built from
EntryTag(entry) == DictGet(entry, "codec_raw", "")

\* the result has one entry for each Bluetooth block seen, in their order
OnePerBlock(result) ==
    /\ Len(result) = Len(SeenClose(seen))
    /\ \A i \in 1 .. Len(result) : EntryTag(result[i]) = SeenClose(seen)[i]

\* C20 as stated: for any sequence of lines the returned list has exactly one
\* entry for each 'Sink #' block with a 'Name:' line containing 'bluez', in
\* the order of the blocks, the last block included
C20_Original ==
    /\ mon.pc = "done" => OnePerBlock(mon.result)
    /\ gui.pc = "done" => OnePerBlock(gui.result)

\* C20 amended: when no address or codec line without '=' was met inside a
\* block, the returned list has exactly one entry for each block with a
\* 'Name:' line containing 'bluez', in the order of the blocks, the last
\* block included; when such a line was met the returned list is empty
C20_OnePerBlockUnlessMalformed ==
    /\ mon.pc = "done" =>
          IF seen.malformed THEN mon.result = <<>> ELSE OnePerBlock(mon.result)
    /\ gui.pc = "done" =>
          IF seen.malformed THEN gui.result = <<>> ELSE OnePerBlock(gui.result)

C20_Witness ==
    /\ mon.pc = "done" /\ gui.pc = "done"
    /\ ~seen.malformed
    /\ seen.closed = <<"aac">>
    /\ seen.open # None /\ seen.open.bluez /\ seen.open.codec_raw = ""
    /\ Len(mon.result) = 2 /\ Len(gui.result) = 2

\* what C21 asks of the SBC branch's work on one codec line, sn being what
\* the lines before it contained: a resolver call carries the address of the
\* open block, and without an address line in that block there is no call
\* and the bitrate is the estimate
CallFollowsBlock(call, sn, estimate) ==
    /\ call.resolver_arg # None =>
          sn.open # None /\ call.resolver_arg = sn.open.address
    /\ (sn.open = None \/ sn.open.address = None) =>
          call.resolver_arg = None /\ call.shown = estimate

\* C21: the resolver is called for an SBC codec line only with the address
\* an 'api.bluez5.address' line of the same block gave before that line;
\* when no such line came before, no call is made and the bitrate is the
\* fallback estimate; the address of an earlier block is never used
C21_AddressOfSameBlock ==
    [][/\ \A call \in mon'.sbc_log \ mon.sbc_log :
             CallFollowsBlock(call, seen, MonitorEstimate(call.is_xq))
       /\ \A call \in gui'.sbc_log \ gui.sbc_log :
             CallFollowsBlock(call, seen, GuiEstimate(call.is_xq))]_vars

C21_Witness ==
    /\ seen.open # None /\ seen.open.address = None
    /\ seen.open.codec_raw = "sbc"
    /\ \E call \in mon.sbc_log : call.resolver_arg = Some(DeviceAddress)
    /\ \E call \in mon.sbc_log :
          call.resolver_arg = None /\ call.shown = MonitorEstimate(FALSE)
    /\ \E call \in gui.sbc_log : call.resolver_arg = Some(DeviceAddress)
    /\ \E call \in gui.sbc_log :
          call.resolver_arg = None /\ call.shown = GuiEstimate(FALSE)

CompareFields ==
    {"codec", "rate", "channels", "channel_mode", "block_length", "subbands"}

\* the bitrate strings are equal, or the GUI's is the terminal parser's SBC
\* estimate followed by ' (est.)'
SameBitrate(m, g) ==
    \/ g.bitrate = m.bitrate
    \/ /\ m.bitrate \in {MonitorEstimate(TRUE), MonitorEstimate(FALSE)}
       /\ g.bitrate = m.bitrate \o " (est.)"

\* a dict of the terminal parser, read with the defaults the GUI reads its
\* own dict with, against a device of the GUI
SameDevice(d, g) ==
    /\ \A f \in CompareFields : BluetoothDevice(d)[f] = g[f]
    /\ SameBitrate(BluetoothDevice(d), g)

EndsInFailure(before, after) ==
    /\ before.pc # "done" /\ after.pc = "done"
    /\ before.pc = "pactl" \/ after.raised \/ seen'.malformed

\* C23: a query that ends in failure returns the empty list, whatever
\* devices were appended before the failure; a line that makes the parser
\* raise ends the query with a returned list, and a returned list that is
\* not empty comes from a query without failure
C23_AllOrNothing ==
    [][/\ EndsInFailure(mon, mon') => mon'.result = <<>>
       /\ EndsInFailure(gui, gui') => gui'.result = <<>>
       /\ seen'.malformed =>
             mon'.pc = "done" /\ mon'.raised /\ gui'.pc = "done" /\ gui'.raised
       /\ mon'.result # <<>> => ~mon'.raised /\ ~seen'.malformed
       /\ gui'.result # <<>> => ~gui'.raised /\ ~seen'.malformed]_vars

C23_Witness ==
    /\ seen.malformed /\ Len(seen.closed) = 1
    /\ mon.pc = "done" /\ mon.raised
    /\ Len(mon.devices) = 1 /\ mon.result = <<>>
    /\ gui.pc = "done" /\ gui.raised
    /\ Len(gui.devices) = 1 /\ gui.result = <<>>

\* C24: whatever the interleaving of the calls of ensure_sudo_ticket, at most
\* one keepalive thread is started
C24_OneKeepalive ==
    callers # None => callers.started <= 1

\* a call made after the keepalive thread has ended holds the lock while
\* another caller waits for it and a third has returned
C24_Witness ==
    /\ callers # None /\ callers.started = 1
    /\ sudo.thread = "exited"
    /\ callers.pc["main"] = "release" /\ callers.lock = Some("main")
    /\ callers.pc["build"] = "lock"
    /\ callers.pc["worker"] = "returned"

\* C25 as stated: no two queries are in flight together, the list never
\* shows an older result after a newer one, and at most one update is
\* queued and not yet run, also while a query lasts longer than the 2 s
\* between two ticks of the monitoring thread
C25_Original ==
    disp # None =>
        /\ disp.in_flight <= 1
        /\ disp.shown <= disp.issued
        /\ disp.main = "idle" => disp.shown = disp.issued
        /\ disp.pending <= 1

====
